---- MODULE Spec2Model ----
(***************************************************************************)
(* Model of mp2p_icp::optimal_tf_gauss_newton                              *)
(* (src/mp2p_icp/src/optimal_tf_gauss_newton.cpp).                         *)
(*                                                                         *)
(* The control flow, the weight-block cursor, the accumulators g, H and    *)
(* errNormSqr, and the three ways out of the Gauss-Newton loop are         *)
(* translated statement by statement.  The numeric collaborators (error    *)
(* terms, exponential map, robust kernel, linear solve) live outside the   *)
(* file; they are modelled on a one-dimensional translation group with     *)
(* unit-resolution arithmetic: a pose is an integer, a correspondence is   *)
(* the integer the pose should reach, the residual is pose - target and    *)
(* every Jacobian is 1.                                                    *)
(***************************************************************************)
EXTENDS Integers, Sequences, FiniteSets, TLC

(* ------------------------------ bounds -------------------------------- *)
\* longest point/point sequence
MaxPts == 2
\* most blocks in a weight-block table
MaxBlocks == 2
\* longest block of a weight-block table
MaxLen == 1
\* largest value of maxInnerLoopIterations
MaxIter == 2

(* ------------------------- input value sets --------------------------- *)
Targets == {0, 2}
LinPoints == {0}
CallerPoses == {5, 6}
Costs == {-1, 0, 2}
Deltas == {0, 2}
Kernels == {"None", "Step"}
\* what a read through the end iterator of point_weights may yield
GarbageLens == {0, 9}
GarbageWeights == {0, 7}

VARIABLES
    in,                       \* const Pairings& in
    gnParams,                 \* const OptimalTF_GN_Parameters& gnParams
    optimalPose,              \* result.optimalPose
    g, H,                     \* accumulators declared before the loop
    w,                        \* local copy of gnParams.pairWeights
    cur_point_block_weights,  \* iterator into in.point_weights (1-based; Len+1 = end())
    cur_point_block_start,
    iter, idx_pt,
    dDexpe_de, errNormSqr, delta,
    pc,                       \* position in the function body
    state,                    \* state of the iteration state machine
    returned,                 \* the function returned true
    fault,                    \* which fault ended the call, "" if none
    \* history of the run, read by the properties only
    poseIterStart,            \* pose at which the running iteration linearised
    wUsed,                    \* w.pt2pt applied to each index of the running pass
    endRead,                  \* a block was read through the end iterator
    faultIdx,                 \* idx_pt at which the weight-table fault was raised
    nErrTerm, nJacob, nSolve, nCompose

vars == << in, gnParams, optimalPose, g, H, w, cur_point_block_weights,
           cur_point_block_start, iter, idx_pt, dDexpe_de, errNormSqr, delta,
           pc, state, returned, fault, poseIterStart, wUsed, endRead,
           faultIdx, nErrTerm, nJacob, nSolve, nCompose >>

(* ------------------------- external collaborators --------------------- *)
\* error terms: residual and its Jacobian w.r.t. the pose parameters
error_point2point(p, pose) == [ret |-> pose - p, J1 |-> 1]
error_point2line(p, pose)  == [ret |-> pose - p, J1 |-> 1]
error_line2line(p, pose)   == [ret |-> pose - p, J1 |-> 1]
error_point2plane(p, pose) == [ret |-> pose - p, J1 |-> 1]
error_plane2plane(p, pose) == [ret |-> pose - p, J1 |-> 1]

\* Jacobian of the exponential map at a pose
jacob_dDexpe_de(pose) == 1

\* SE<3>::exp of a tangent increment
SE_exp(d) == d

\* pose composition (operator+ on CPose3D)
Compose(pose, dE) == pose + dE

\* robust kernel: the multiplier for a squared residual norm
RobustSqrtWeight(kernel, kernelParam, e2) ==
    IF kernel = "Step" THEN (IF e2 <= kernelParam * kernelParam THEN 1 ELSE 0)
    ELSE 1

\* whether create_robust_kernel returned a callable
HasRobustKernel(kernel) == kernel # "None"

Abs(x) == IF x < 0 THEN -x ELSE x

\* quotient rounded toward zero
Quot(a, b) == IF a >= 0 THEN a \div b ELSE -((-a) \div b)

\* H.colPivHouseholderQr().solve(g): zero for a rank-0 matrix
QrSolve(Hm, gv) == IF Hm = 0 THEN 0 ELSE Quot(gv, Hm)

(* --------------------------- pure helpers ------------------------------ *)
nPt2Pt == Len(in.paired_pt2pt)
has_per_pt_weight == in.point_weights # << >>
TableEnd == Len(in.point_weights) + 1

\* one correspondence's contribution to errNormSqr, g and H
Contribution(e, baseWeight, dD) ==
    LET weight == IF HasRobustKernel(gnParams.kernel)
                  THEN baseWeight * RobustSqrtWeight(gnParams.kernel,
                                        gnParams.kernelParam, e.ret * e.ret)
                  ELSE baseWeight
        err_i == weight * e.ret
        Ji    == weight * e.J1 * dD
    IN  [e2 |-> err_i * err_i, g |-> Ji * err_i, H |-> Ji * Ji]

Add(acc, c) == [e2 |-> acc.e2 + c.e2, g |-> acc.g + c.g, H |-> acc.H + c.H]

\* variant: the cost test written with < instead of <=
CostReachedStrict(e2, maxCost) == maxCost >= 0 /\ e2 < maxCost * maxCost

\* errNorm <= maxCost with errNorm = sqrt(errNormSqr)
CostReached(e2, maxCost) == maxCost >= 0 /\ e2 <= maxCost * maxCost

\* variant: the step test written with <= instead of <
StepBelowOrEqual(d, minDelta) == Abs(d) <= minDelta

\* delta.norm() < minDelta
StepBelow(d, minDelta) == Abs(d) < minDelta


\* the error term a loop calls, by correspondence kind
ErrorTerm(kind, p, pose) ==
    CASE kind = "pt2pt" -> error_point2point(p, pose)
      [] kind = "pt2ln" -> error_point2line(p, pose)
      [] kind = "ln2ln" -> error_line2line(p, pose)
      [] kind = "pt2pl" -> error_point2plane(p, pose)
      [] kind = "pl2pl" -> error_plane2plane(p, pose)

\* a whole loop over one of the four kinds without a weight table
AccumLoop(kind, seq, pose, wk, dD, acc) ==
    LET f[i \in 0..Len(seq)] ==
            IF i = 0 THEN acc
            ELSE Add(f[i - 1], Contribution(ErrorTerm(kind, seq[i], pose), wk, dD))
    IN  f[Len(seq)]

CurAcc == [e2 |-> errNormSqr, g |-> g, H |-> H]

(* ------------------------------ inputs --------------------------------- *)
DefaultWeights == [pt2pt |-> 1, pt2ln |-> 1, pt2pl |-> 1, pl2pl |-> 1, ln2ln |-> 1]
NoWeights      == [pt2pt |-> 0, pt2ln |-> 0, pt2pl |-> 0, pl2pl |-> 0, ln2ln |-> 0]

\* weight-block tables of at most nb blocks, lengths 0..ml, block k weighing k+1
TablesUpTo(nb, ml) ==
    UNION { { [k \in 1..m |-> [first |-> ls[k], second |-> k + 1]] :
                ls \in [1..m -> 0..ml] } : m \in 0..nb }

\* point/point sequences of at most n correspondences: all with one target,
\* or the two targets alternating
PtSeqsUpTo(n) ==
    UNION { { [i \in 1..m |-> t] : t \in Targets }
            \cup { [i \in 1..m |-> 2 * (i % 2)] } : m \in 0..n }

OtherScenes ==
    { [pt2ln |-> << >>, ln2ln |-> << >>, pt2pl |-> << >>, pl2pl |-> << >>],
      [pt2ln |-> <<0>>, ln2ln |-> <<0>>, pt2pl |-> <<0>>, pl2pl |-> <<0>>],
      [pt2ln |-> <<2>>, ln2ln |-> << >>, pt2pl |-> <<0, 2>>, pl2pl |-> <<2>>] }

InitWith(tables, ptSeqs, scenes, iters, costs, deltas, kernels) ==
    /\ \E t \in tables, ps \in ptSeqs, sc \in scenes :
          in = [paired_pt2pt |-> ps, paired_pt2ln |-> sc.pt2ln,
                paired_pt2pl |-> sc.pt2pl, paired_pl2pl |-> sc.pl2pl,
                paired_ln2ln |-> sc.ln2ln, point_weights |-> t]
    /\ \E hl \in BOOLEAN, lp \in LinPoints, mi \in iters, mc \in costs,
          md \in deltas, k \in kernels :
          gnParams = [hasLinearizationPoint |-> hl, linearizationPoint |-> lp,
                      maxInnerLoopIterations |-> mi, maxCost |-> mc,
                      minDelta |-> md, kernel |-> k, kernelParam |-> 1,
                      pairWeights |-> DefaultWeights]
    /\ optimalPose \in CallerPoses
    /\ g = 0 /\ H = 0 /\ w = NoWeights
    /\ cur_point_block_weights = 1 /\ cur_point_block_start = 0
    /\ iter = 0 /\ idx_pt = 0
    /\ dDexpe_de = 0 /\ errNormSqr = 0 /\ delta = 0
    /\ pc = "entry" /\ state = "ITERATING" /\ returned = FALSE /\ fault = ""
    /\ poseIterStart = optimalPose /\ wUsed = << >> /\ endRead = FALSE
    /\ faultIdx = -1
    /\ nErrTerm = 0 /\ nJacob = 0 /\ nSolve = 0 /\ nCompose = 0

Init == InitWith(TablesUpTo(MaxBlocks, MaxLen), PtSeqsUpTo(MaxPts),
                 OtherScenes, 0..MaxIter, Costs, Deltas, Kernels)

(* ------------------------------ actions -------------------------------- *)
inputs == << in, gnParams >>
cursor == << cur_point_block_weights, cur_point_block_start >>
counts == << nErrTerm, nJacob, nSolve, nCompose >>
hist   == << poseIterStart, wUsed, endRead, faultIdx >>

\* variant: the pose is assigned before the assertion is evaluated
AssertAfterAssignment ==
    /\ pc = "entry"
    /\ ~gnParams.hasLinearizationPoint
    /\ optimalPose' = gnParams.linearizationPoint
    /\ pc' = "fault"
    /\ fault' = "no_linearization_point"
    /\ UNCHANGED << inputs, g, H, w, cursor, iter, idx_pt,
                    dDexpe_de, errNormSqr, delta, state, returned, hist, counts >>

\* ASSERTMSG_(gnParams.linearizationPoint.has_value(), ...) fails
AssertLinearizationPoint ==
    /\ pc = "entry"
    /\ ~gnParams.hasLinearizationPoint
    /\ pc' = "fault"
    /\ fault' = "no_linearization_point"
    /\ UNCHANGED << inputs, optimalPose, g, H, w, cursor, iter, idx_pt,
                    dDexpe_de, errNormSqr, delta, state, returned, hist, counts >>

\* variant: the loop starts from the pose found in the result object
SetupKeepsCallerPose ==
    /\ pc = "entry"
    /\ gnParams.hasLinearizationPoint
    /\ g' = 0 /\ H' = 0
    /\ w' = gnParams.pairWeights
    /\ cur_point_block_weights' = 1
    /\ cur_point_block_start' = 0
    /\ iter' = 0
    /\ pc' = "for_iter"
    /\ poseIterStart' = optimalPose
    /\ UNCHANGED << inputs, optimalPose, idx_pt, dDexpe_de, errNormSqr, delta,
                    state, returned, fault, wUsed, endRead, faultIdx, counts >>

\* the statements between the assertion and the loop
Setup ==
    /\ pc = "entry"
    /\ gnParams.hasLinearizationPoint
    /\ optimalPose' = gnParams.linearizationPoint
    /\ g' = 0 /\ H' = 0
    /\ w' = gnParams.pairWeights
    /\ cur_point_block_weights' = 1
    /\ cur_point_block_start' = 0
    /\ iter' = 0
    /\ pc' = "for_iter"
    /\ poseIterStart' = gnParams.linearizationPoint
    /\ UNCHANGED << inputs, idx_pt, dDexpe_de, errNormSqr, delta, state,
                    returned, fault, wUsed, endRead, faultIdx, counts >>

\* loop condition true: the head of one iteration
IterBegin ==
    /\ pc = "for_iter"
    /\ iter < gnParams.maxInnerLoopIterations
    /\ dDexpe_de' = jacob_dDexpe_de(optimalPose)
    /\ nJacob' = nJacob + 1
    /\ errNormSqr' = 0
    /\ idx_pt' = 0
    /\ pc' = "pt2pt"
    /\ poseIterStart' = optimalPose
    /\ wUsed' = << >>
    /\ UNCHANGED << inputs, optimalPose, g, H, w, cursor, iter, delta, state,
                    returned, fault, endRead, faultIdx, nErrTerm, nSolve, nCompose >>

\* loop condition false: the iteration budget is used up
LoopExhausted ==
    /\ pc = "for_iter"
    /\ ~(iter < gnParams.maxInnerLoopIterations)
    /\ state' = "EXHAUSTED"
    /\ pc' = "return"
    /\ UNCHANGED << inputs, optimalPose, g, H, w, cursor, iter, idx_pt,
                    dDexpe_de, errNormSqr, delta, returned, fault, hist, counts >>

\* lines 87-99 for the correspondence at idx_pt, weighted with base weight bw
PtAccumulate(bw) ==
    LET c == Contribution(
                 ErrorTerm("pt2pt", in.paired_pt2pt[idx_pt + 1], optimalPose),
                 bw, dDexpe_de)
    IN  /\ w' = [w EXCEPT !.pt2pt = bw]
        /\ errNormSqr' = errNormSqr + c.e2
        /\ g' = g + c.g
        /\ H' = H + c.H
        /\ nErrTerm' = nErrTerm + 1
        /\ wUsed' = Append(wUsed, bw)
        /\ idx_pt' = idx_pt + 1
        /\ UNCHANGED << inputs, optimalPose, iter, dDexpe_de, delta, pc, state,
                        returned, fault, poseIterStart, faultIdx, nJacob,
                        nSolve, nCompose >>

\* no weight table: w.pt2pt stays the default
PointToPointNoTable ==
    /\ pc = "pt2pt" /\ idx_pt < nPt2Pt
    /\ ~has_per_pt_weight
    /\ PtAccumulate(w.pt2pt)
    /\ UNCHANGED << cursor, endRead >>

\* table, idx_pt still inside the current block
PointToPointInBlock ==
    /\ pc = "pt2pt" /\ idx_pt < nPt2Pt
    /\ has_per_pt_weight
    /\ cur_point_block_weights # TableEnd
    /\ ~(idx_pt >= cur_point_block_start
                    + in.point_weights[cur_point_block_weights].first)
    /\ PtAccumulate(in.point_weights[cur_point_block_weights].second)
    /\ UNCHANGED << cursor, endRead >>

\* table, idx_pt past the current block: move to the next block
PointToPointNextBlock ==
    /\ pc = "pt2pt" /\ idx_pt < nPt2Pt
    /\ has_per_pt_weight
    /\ cur_point_block_weights # TableEnd
    /\ idx_pt >= cur_point_block_start
                   + in.point_weights[cur_point_block_weights].first
    /\ cur_point_block_weights + 1 # TableEnd
    /\ cur_point_block_weights' = cur_point_block_weights + 1
    /\ cur_point_block_start' = idx_pt
    /\ PtAccumulate(in.point_weights[cur_point_block_weights + 1].second)
    /\ UNCHANGED endRead

\* table, idx_pt past the last block: the assertion passes (the iterator is
\* not yet end()), the iterator becomes end() and ->second is read through it
PointToPointOffEnd ==
    /\ pc = "pt2pt" /\ idx_pt < nPt2Pt
    /\ has_per_pt_weight
    /\ cur_point_block_weights # TableEnd
    /\ idx_pt >= cur_point_block_start
                   + in.point_weights[cur_point_block_weights].first
    /\ cur_point_block_weights + 1 = TableEnd
    /\ cur_point_block_weights' = TableEnd
    /\ cur_point_block_start' = idx_pt
    /\ endRead' = TRUE
    /\ \E gw \in GarbageWeights : PtAccumulate(gw)

\* iterator already end(): ->first read through it compares false, then
\* ->second is read through it
PointToPointAtEnd ==
    /\ pc = "pt2pt" /\ idx_pt < nPt2Pt
    /\ has_per_pt_weight
    /\ cur_point_block_weights = TableEnd
    /\ \E gl \in GarbageLens :
          /\ ~(idx_pt >= cur_point_block_start + gl)
          /\ \E gw \in GarbageWeights : PtAccumulate(gw)
    /\ endRead' = TRUE
    /\ UNCHANGED cursor

\* iterator already end(): ->first read through it compares true and
\* ASSERT_(cur_point_block_weights != in.point_weights.end()) fails
PointToPointAssertFails ==
    /\ pc = "pt2pt" /\ idx_pt < nPt2Pt
    /\ has_per_pt_weight
    /\ cur_point_block_weights = TableEnd
    /\ \E gl \in GarbageLens : idx_pt >= cur_point_block_start + gl
    /\ endRead' = TRUE
    /\ pc' = "fault"
    /\ fault' = "weight_table"
    /\ faultIdx' = idx_pt
    /\ nErrTerm' = nErrTerm + 1
    /\ UNCHANGED << inputs, optimalPose, g, H, w, cursor, iter, idx_pt,
                    dDexpe_de, errNormSqr, delta, state, returned,
                    poseIterStart, wUsed, nJacob, nSolve, nCompose >>

\* a read through end() that the platform traps
PointToPointTrap ==
    /\ pc = "pt2pt" /\ idx_pt < nPt2Pt
    /\ has_per_pt_weight
    /\ \/ cur_point_block_weights = TableEnd
       \/ /\ cur_point_block_weights + 1 = TableEnd
          /\ idx_pt >= cur_point_block_start
                         + in.point_weights[cur_point_block_weights].first
    /\ endRead' = TRUE
    /\ pc' = "crash"
    /\ nErrTerm' = nErrTerm + 1
    /\ UNCHANGED << inputs, optimalPose, g, H, w, cursor, iter, idx_pt,
                    dDexpe_de, errNormSqr, delta, state, returned, fault,
                    poseIterStart, wUsed, faultIdx, nJacob, nSolve, nCompose >>

\* idx_pt reached nPt2Pt
PointToPointDone ==
    /\ pc = "pt2pt" /\ ~(idx_pt < nPt2Pt)
    /\ pc' = "pt2ln"
    /\ UNCHANGED << inputs, optimalPose, g, H, w, cursor, iter, idx_pt,
                    dDexpe_de, errNormSqr, delta, state, returned, fault,
                    hist, counts >>

\* one of the four loops without a weight table, start to end
KindLoop(kind, seq, wk, next) ==
    LET a == AccumLoop(kind, seq, optimalPose, wk, dDexpe_de, CurAcc)
    IN  /\ pc = kind
        /\ errNormSqr' = a.e2
        /\ g' = a.g
        /\ H' = a.H
        /\ nErrTerm' = nErrTerm + Len(seq)
        /\ pc' = next
        /\ UNCHANGED << inputs, optimalPose, w, cursor, iter, idx_pt,
                        dDexpe_de, delta, state, returned, fault, hist,
                        nJacob, nSolve, nCompose >>

PointToLineLoop  == KindLoop("pt2ln", in.paired_pt2ln, w.pt2ln, "ln2ln")
LineToLineLoop   == KindLoop("ln2ln", in.paired_ln2ln, w.ln2ln, "pt2pl")
PointToPlaneLoop == KindLoop("pt2pl", in.paired_pt2pl, w.pt2pl, "pl2pl")
PlaneToPlaneLoop == KindLoop("pl2pl", in.paired_pl2pl, w.pl2pl, "cost")

\* if (errNorm <= gnParams.maxCost) break;
CostBreak ==
    /\ pc = "cost"
    /\ CostReached(errNormSqr, gnParams.maxCost)
    /\ state' = "CONVERGED_BY_COST"
    /\ pc' = "return"
    /\ UNCHANGED << inputs, optimalPose, g, H, w, cursor, iter, idx_pt,
                    dDexpe_de, errNormSqr, delta, returned, fault, hist, counts >>

CostContinue ==
    /\ pc = "cost"
    /\ ~CostReached(errNormSqr, gnParams.maxCost)
    /\ pc' = "solve"
    /\ UNCHANGED << inputs, optimalPose, g, H, w, cursor, iter, idx_pt,
                    dDexpe_de, errNormSqr, delta, state, returned, fault,
                    hist, counts >>

\* delta = -H.colPivHouseholderQr().solve(g); optimalPose = optimalPose + exp(delta)
SolveUpdate ==
    /\ pc = "solve"
    /\ delta' = -QrSolve(H, g)
    /\ optimalPose' = Compose(optimalPose, SE_exp(delta'))
    /\ nSolve' = nSolve + 1
    /\ nCompose' = nCompose + 1
    /\ pc' = "step_test"
    /\ UNCHANGED << inputs, g, H, w, cursor, iter, idx_pt, dDexpe_de,
                    errNormSqr, state, returned, fault, hist, nErrTerm, nJacob >>

\* if (delta.norm() < gnParams.minDelta) break;
StepBreak ==
    /\ pc = "step_test"
    /\ StepBelow(delta, gnParams.minDelta)
    /\ state' = "CONVERGED_BY_STEP"
    /\ pc' = "return"
    /\ UNCHANGED << inputs, optimalPose, g, H, w, cursor, iter, idx_pt,
                    dDexpe_de, errNormSqr, delta, returned, fault, hist, counts >>

\* variant: the loop counter is not advanced
StepContinueNoIncrement ==
    /\ pc = "step_test"
    /\ ~StepBelow(delta, gnParams.minDelta)
    /\ pc' = "for_iter"
    /\ UNCHANGED << inputs, optimalPose, g, H, w, cursor, iter, idx_pt,
                    dDexpe_de, errNormSqr, delta, state, returned, fault,
                    hist, counts >>

\* end of the loop body: iter++
StepContinue ==
    /\ pc = "step_test"
    /\ ~StepBelow(delta, gnParams.minDelta)
    /\ iter' = iter + 1
    /\ pc' = "for_iter"
    /\ UNCHANGED << inputs, optimalPose, g, H, w, cursor, idx_pt, dDexpe_de,
                    errNormSqr, delta, state, returned, fault, hist, counts >>

\* return true;
Return ==
    /\ pc = "return"
    /\ returned' = TRUE
    /\ pc' = "done"
    /\ UNCHANGED << inputs, optimalPose, g, H, w, cursor, iter, idx_pt,
                    dDexpe_de, errNormSqr, delta, state, fault, hist, counts >>

Next ==
    \/ AssertLinearizationPoint
    \/ Setup
    \/ IterBegin
    \/ LoopExhausted
    \/ PointToPointNoTable
    \/ PointToPointInBlock
    \/ PointToPointNextBlock
    \/ PointToPointOffEnd
    \/ PointToPointAtEnd
    \/ PointToPointAssertFails
    \/ PointToPointTrap
    \/ PointToPointDone
    \/ PointToLineLoop
    \/ LineToLineLoop
    \/ PointToPlaneLoop
    \/ PlaneToPlaneLoop
    \/ CostBreak
    \/ CostContinue
    \/ SolveUpdate
    \/ StepBreak
    \/ StepContinue
    \/ Return

Spec == Init /\ [][Next]_vars


\* the weight-table specification: longer tables and sequences, plain numerics
EmptyScene == [pt2ln |-> << >>, ln2ln |-> << >>, pt2pl |-> << >>, pl2pl |-> << >>]

InitTable == InitWith(TablesUpTo(MaxBlocks + 1, MaxLen + 1), PtSeqsUpTo(MaxPts + 1),
                      {EmptyScene}, 0..MaxIter, {-1, 0}, Deltas, {"None"})

SpecTable == InitTable /\ [][Next]_vars

(* ------------------- vocabulary of the properties --------------------- *)
Table == in.point_weights

\* sum of the block lengths of the first k blocks
CumLen(t, k) ==
    LET f[j \in 0..k] == IF j = 0 THEN 0 ELSE f[j - 1] + t[j].first
    IN  f[k]

SumLens(t) == CumLen(t, Len(t))

\* weight of the block whose half-open cumulative range contains index i (0-based)
BlockWeightAt(t, i) ==
    LET k == CHOOSE j \in 1..Len(t) : CumLen(t, j - 1) <= i /\ i < CumLen(t, j)
    IN  t[k].second

HasLin == gnParams.hasLinearizationPoint
TableCovers == Table = << >> \/ SumLens(Table) = nPt2Pt
Terminal == {"CONVERGED_BY_COST", "CONVERGED_BY_STEP", "EXHAUSTED"}
InIteration == {"pt2pt", "pt2ln", "ln2ln", "pt2pl", "pl2pl", "cost", "solve", "step_test"}
Accumulating == {"pt2pt", "pt2ln", "ln2ln", "pt2pl", "pl2pl", "cost"}

\* every correspondence of every kind has residual zero at pose p
ZeroResidualAt(p) ==
    /\ \A i \in 1..nPt2Pt : error_point2point(in.paired_pt2pt[i], p).ret = 0
    /\ \A i \in 1..Len(in.paired_pt2ln) : error_point2line(in.paired_pt2ln[i], p).ret = 0
    /\ \A i \in 1..Len(in.paired_ln2ln) : error_line2line(in.paired_ln2ln[i], p).ret = 0
    /\ \A i \in 1..Len(in.paired_pt2pl) : error_point2plane(in.paired_pt2pl[i], p).ret = 0
    /\ \A i \in 1..Len(in.paired_pl2pl) : error_plane2plane(in.paired_pl2pl[i], p).ret = 0

\* the sums of this iteration's contributions alone, at pose p, the point/point
\* correspondences weighted as this pass weighted them
FreshSums(p) ==
    LET pt[i \in 0..nPt2Pt] ==
            IF i = 0 THEN [e2 |-> 0, g |-> 0, H |-> 0]
            ELSE Add(pt[i - 1],
                     Contribution(error_point2point(in.paired_pt2pt[i], p),
                                  wUsed[i], jacob_dDexpe_de(p)))
        a1 == AccumLoop("pt2ln", in.paired_pt2ln, p, w.pt2ln,
                        jacob_dDexpe_de(p), pt[nPt2Pt])
        a2 == AccumLoop("ln2ln", in.paired_ln2ln, p, w.ln2ln,
                        jacob_dDexpe_de(p), a1)
        a3 == AccumLoop("pt2pl", in.paired_pt2pl, p, w.pt2pl,
                        jacob_dDexpe_de(p), a2)
    IN  AccumLoop("pl2pl", in.paired_pl2pl, p, w.pl2pl,
                  jacob_dDexpe_de(p), a3)

(* ------------------------------- C1 ------------------------------------ *)
\* C1: with a linearization point and a table that covers the point/point
\* sequence (or no table), the loop runs at most maxInnerLoopIterations
\* iterations and pose updates, no fault is raised, no position short of the
\* return is stuck, the call ends in exactly one of the three terminal states
\* and returns true; with a budget of 0 no iteration runs and the pose is the
\* linearization point.
C1_TerminatesWithSuccess ==
    (HasLin /\ TableCovers) =>
        /\ pc \notin {"fault", "crash"} /\ fault = "" /\ ~endRead
        /\ iter <= gnParams.maxInnerLoopIterations
        /\ nJacob <= gnParams.maxInnerLoopIterations
        /\ nSolve <= gnParams.maxInnerLoopIterations
        /\ nCompose <= gnParams.maxInnerLoopIterations
        /\ idx_pt <= nPt2Pt
        /\ (pc \in {"return", "done"} <=> state \in Terminal)
        /\ (pc \notin {"return", "done"} => state = "ITERATING")
        /\ (returned <=> pc = "done")
        /\ (pc # "done" => ENABLED Next)
        /\ (gnParams.maxInnerLoopIterations = 0 /\ pc \in {"return", "done"} =>
               /\ state = "EXHAUSTED"
               /\ nJacob = 0 /\ nErrTerm = 0 /\ nSolve = 0 /\ nCompose = 0
               /\ optimalPose = gnParams.linearizationPoint)

C1_Witness ==
    /\ HasLin /\ Table # << >> /\ TableCovers /\ nPt2Pt >= 2
    /\ pc = "done" /\ returned /\ state = "EXHAUSTED"
    /\ gnParams.maxInnerLoopIterations >= 2
    /\ nSolve = gnParams.maxInnerLoopIterations

(* ------------------------------- C2 ------------------------------------ *)
\* C2: without a linearization point the call faults at once: the pose the
\* caller passed is never written, no error term, tangent Jacobian, solve or
\* composition is performed, and the call never returns success.
C2_NoLinearizationPointAborts ==
    /\ [](~HasLin =>
            /\ pc \in {"entry", "fault"}
            /\ (pc = "fault" => fault = "no_linearization_point")
            /\ ~returned
            /\ nErrTerm = 0 /\ nJacob = 0 /\ nSolve = 0 /\ nCompose = 0)
    /\ [][~HasLin => optimalPose' = optimalPose]_vars
    /\ [][(~HasLin /\ pc = "entry") => pc' = "fault"]_vars

C2_Witness ==
    ~HasLin /\ pc = "fault" /\ fault = "no_linearization_point"
    /\ optimalPose \in CallerPoses /\ optimalPose \notin LinPoints

(* ------------------------------- C6 ------------------------------------ *)
\* C6: an iteration whose residual norm is <= the cost threshold never
\* reaches the solve; it ends in CONVERGED_BY_COST with no solve and no
\* composition in that iteration and the pose it started with.
C6_CostStopsBeforeSolve ==
    LET below == gnParams.maxCost >= 0
                 /\ errNormSqr <= gnParams.maxCost * gnParams.maxCost
    IN  /\ (pc \in {"solve", "step_test"} => ~below)
        /\ (state = "CONVERGED_BY_COST" =>
               /\ below
               /\ pc \in {"return", "done"}
               /\ optimalPose = poseIterStart
               /\ nSolve = iter /\ nCompose = iter /\ nJacob = iter + 1)

C6_Witness ==
    /\ state = "CONVERGED_BY_COST" /\ pc = "done"
    /\ iter >= 1 /\ errNormSqr > 0
    /\ optimalPose # gnParams.linearizationPoint

(* ------------------------------- C7 ------------------------------------ *)
\* C7: at the step test the pose already holds this iteration's update; an
\* increment norm strictly below the step threshold ends the loop in
\* CONVERGED_BY_STEP with the update kept, otherwise (always, for a threshold
\* of 0) the next iteration, if any, linearizes at the updated pose.
C7_UpdateThenStepTest ==
    LET small == Abs(delta) < gnParams.minDelta
    IN  /\ (pc = "step_test" =>
               /\ optimalPose = poseIterStart + delta
               /\ nSolve = iter + 1 /\ nCompose = iter + 1)
        /\ (state = "CONVERGED_BY_STEP" =>
               /\ small
               /\ pc \in {"return", "done"}
               /\ optimalPose = poseIterStart + delta
               /\ nCompose = iter + 1)
        /\ (gnParams.minDelta = 0 => state # "CONVERGED_BY_STEP")
        /\ (pc = "for_iter" /\ iter >= 1 =>
               /\ ~small
               /\ optimalPose = poseIterStart + delta
               /\ nCompose = iter)
        /\ (pc \in Accumulating \cup {"solve"} =>
               /\ poseIterStart = optimalPose
               /\ dDexpe_de = jacob_dDexpe_de(optimalPose)
               /\ nJacob = iter + 1
               /\ (iter >= 1 => ~small))
        /\ (state = "EXHAUSTED" /\ iter >= 1 => ~small)

C7_Witness ==
    /\ state = "CONVERGED_BY_STEP" /\ pc = "done"
    /\ delta # 0 /\ optimalPose # poseIterStart /\ iter >= 1

(* ------------------------------- C8 ------------------------------------ *)
\* C8 as stated: zero residuals at the linearization point and a cost
\* threshold >= 0 give a zero gradient, no fault, no solve, CONVERGED_BY_COST
\* and the linearization point as the result.
C8_ZeroResidualFixedPoint_Original ==
    (HasLin /\ ZeroResidualAt(gnParams.linearizationPoint)
            /\ gnParams.maxCost >= 0) =>
        /\ pc \notin {"fault", "crash"}
        /\ g = 0
        /\ nSolve = 0 /\ nCompose = 0
        /\ (pc \in {"return", "done"} =>
               /\ state = "CONVERGED_BY_COST"
               /\ optimalPose = gnParams.linearizationPoint)

\* C8 (amended): the same, for a call that runs at least one iteration
\* (maxInnerLoopIterations >= 1) on a table that is absent or covers the
\* point/point sequence.
C8_ZeroResidualFixedPoint ==
    (HasLin /\ ZeroResidualAt(gnParams.linearizationPoint)
            /\ gnParams.maxCost >= 0
            /\ gnParams.maxInnerLoopIterations >= 1 /\ TableCovers) =>
        /\ pc \notin {"fault", "crash"}
        /\ g = 0
        /\ nSolve = 0 /\ nCompose = 0
        /\ nJacob <= 1
        /\ (pc \in {"return", "done"} =>
               /\ state = "CONVERGED_BY_COST"
               /\ nJacob = 1
               /\ optimalPose = gnParams.linearizationPoint)

C8_Witness ==
    /\ HasLin /\ ZeroResidualAt(gnParams.linearizationPoint)
    /\ gnParams.maxCost >= 0 /\ gnParams.maxInnerLoopIterations >= 1
    /\ Table # << >> /\ TableCovers /\ nPt2Pt >= 1 /\ Len(in.paired_pl2pl) >= 1
    /\ pc = "done" /\ state = "CONVERGED_BY_COST" /\ nErrTerm >= 5

(* ------------------------------- C9 ------------------------------------ *)
\* C9: at the solve step g and H are the sums of the contributions of this
\* iteration alone, linearized at the current pose.
C9_FreshAccumulators ==
    pc = "solve" =>
        /\ g = FreshSums(optimalPose).g
        /\ H = FreshSums(optimalPose).H
        /\ errNormSqr = FreshSums(optimalPose).e2

(* ------------------------------- C5 ------------------------------------ *)
\* C5: in every iteration correspondence i is weighted with the weight of
\* the block whose cumulative range contains i (tables of non-empty blocks
\* that cover the sequence), or with the default weight when there is no table.
C5_WeightDependsOnIndexOnly ==
    (HasLin /\ TableCovers /\ \A k \in 1..Len(Table) : Table[k].first >= 1) =>
        \A i \in 1..Len(wUsed) :
            wUsed[i] = IF Table = << >> THEN gnParams.pairWeights.pt2pt
                       ELSE BlockWeightAt(Table, i - 1)

(* ------------------------------- C10 ----------------------------------- *)
\* C10: in the first pass, for every table of blocks of length >= 0 that
\* sums to nPt2Pt, correspondence i gets the weight of the block whose
\* half-open cumulative range contains i and the cursor never reaches the end.
C10_FirstPassBlockWeights ==
    (HasLin /\ Table # << >> /\ SumLens(Table) = nPt2Pt /\ iter = 0) =>
        /\ cur_point_block_weights # TableEnd
        /\ \A i \in 1..Len(wUsed) : wUsed[i] = BlockWeightAt(Table, i - 1)

(* ------------------------------- C3 ------------------------------------ *)
\* C3: a non-empty table summing to less than nPt2Pt faults at the first
\* index no block covers: nothing is read through the end of the table, no
\* correspondence at or past that index is weighted, and the pass over the
\* point/point sequence is never completed.
C3_ShortTableFaultsAtCoverageEnd ==
    (HasLin /\ Table # << >> /\ SumLens(Table) < nPt2Pt) =>
        /\ ~endRead
        /\ Len(wUsed) <= SumLens(Table)
        /\ (pc = "fault" => fault = "weight_table" /\ faultIdx = SumLens(Table))
        /\ (pc = "pt2pt" => idx_pt <= SumLens(Table))
        /\ (nJacob >= 1 => pc \in {"pt2pt", "fault"})

(* ------------------------------- C4 ------------------------------------ *)
\* C4: a non-empty table whose block lengths do not sum to nPt2Pt ends the
\* call in a fault: a call that passes over the point/point sequence never
\* returns a result.
C4_MismatchedTableFaults ==
    (HasLin /\ Table # << >> /\ SumLens(Table) # nPt2Pt /\ nJacob >= 1) =>
        ~returned

====
